---------------------------- MODULE Spec2Model ----------------------------
(***************************************************************************)
(* A model of three parts of Parsr's server:                               *)
(*   - the pdfminer input backend (execute / getPage / breakLineIntoWords),*)
(*   - the link-detection cleaning module (LinkDetectionModule.main),      *)
(*   - the TableOfContents element.                                        *)
(* Each part has its own specification over the module's variables; the    *)
(* variables of the other parts stay at their idle values.                 *)
(***************************************************************************)
EXTENDS Integers, Sequences, FiniteSets, TLC

(***************************************************************************)
(* Bounds of the model.                                                    *)
(***************************************************************************)
MaxLineLen == 4

MaxWords == 1

MaxAnnots == 2

MaxImages == 1

(***************************************************************************)
(* Generic helpers.                                                        *)
(***************************************************************************)
Min(S) == CHOOSE x \in S : \A y \in S : x <= y

Max(S) == CHOOSE x \in S : \A y \in S : x >= y

Abs(x) == IF x < 0 THEN -x ELSE x

Range(s) == { s[i] : i \in DOMAIN s }

\* Array.prototype.filter with the predicate given as the set of kept values.
RECURSIVE SelectIdx(_, _)
SelectIdx(s, keep) ==
    IF s = <<>> THEN <<>>
    ELSE LET rest == SelectIdx(Tail(s), { i - 1 : i \in keep \ {1} })
         IN  IF 1 \in keep THEN <<Head(s)>> \o rest ELSE rest

\* [].concat(...seqs): the concatenation of a sequence of sequences.
RECURSIVE Flatten(_)
Flatten(ss) == IF ss = <<>> THEN <<>> ELSE Head(ss) \o Flatten(Tail(ss))

\* The sequences over S of length at most n.
SeqsUpTo(S, n) == UNION { [1..k -> S] : k \in 0..n }

(***************************************************************************)
(* Geometry kernel: BoundingBox {left, top, width, height}.                *)
(***************************************************************************)
BoundingBox(l, t, w, h) == [left |-> l, top |-> t, width |-> w, height |-> h]

ZeroBox == BoundingBox(0, 0, 0, 0)

\* BoundingBox.merge: the smallest box covering all the boxes.
Merge(boxes) ==
    LET l == Min({ b.left : b \in Range(boxes) })
        t == Min({ b.top : b \in Range(boxes) })
        r == Max({ b.left + b.width : b \in Range(boxes) })
        bt == Max({ b.top + b.height : b \in Range(boxes) })
    IN  BoundingBox(l, t, r - l, bt - t)

Area(b) == b.width * b.height

\* The area of the intersection of two boxes.
IntersectionArea(a, b) ==
    LET w == Min({a.left + a.width, b.left + b.width}) - Max({a.left, b.left})
        h == Min({a.top + a.height, b.top + b.height}) - Max({a.top, b.top})
    IN  IF w > 0 /\ h > 0 THEN w * h ELSE 0

\* pdfminer's bbox is x0,y0,x1,y1 with the origin at the bottom left.
getBoundingBox(bbox, pageHeight) ==
    LET width == Abs(bbox[3] - bbox[1])
        height == Abs(bbox[2] - bbox[4])
        left == bbox[1]
        top == Abs(pageHeight - bbox[2]) - height
    IN  BoundingBox(left, top, width, height)

(***************************************************************************)
(* Fonts.                                                                  *)
(***************************************************************************)
BoldNames == {"Arial-Bold"}

ItalicNames == {"Times-Italic"}

UnderlineNames == {}

ncolourToHex(ncolour) ==
    CASE ncolour = "[0]" -> "#000000"
      [] ncolour = "[1]" -> "#ffffff"
      [] ncolour = "[1, 0, 0]" -> "#ff0000"
      [] OTHER -> "#NaNNaNNaN"

Font(name, size, ncolour) ==
    [name |-> name, size |-> size,
     weight |-> IF name \in BoldNames THEN "bold" ELSE "medium",
     isItalic |-> name \in ItalicNames,
     isUnderline |-> name \in UnderlineNames,
     color |-> ncolourToHex(ncolour)]

undefinedFont ==
    [name |-> "undefined", size |-> 0, weight |-> "medium", isItalic |-> FALSE,
     isUnderline |-> FALSE, color |-> "#000000"]

\* Font.isEqual: structural equality.
FontIsEqual(f, g) == f = g

\* The baskets after the fonts were put in one by one: a font joins every
\* basket whose first font is equal to it, or opens a new basket at the end.
RECURSIVE Baskets(_, _)
Baskets(fonts, baskets) ==
    IF fonts = <<>> THEN baskets
    ELSE LET font == Head(fonts)
             found == \E i \in DOMAIN baskets : FontIsEqual(baskets[i][1], font)
             pushed == [i \in DOMAIN baskets |->
                          IF FontIsEqual(baskets[i][1], font)
                          THEN Append(baskets[i], font) ELSE baskets[i]]
         IN  Baskets(Tail(fonts), IF found THEN pushed ELSE Append(baskets, <<font>>))

\* The sort with the longest baskets in reverse order of opening.
getMostCommonFont_LastLongest(theFonts) ==
    LET baskets == Baskets(theFonts, <<>>)
    IN  IF baskets = <<>> THEN undefinedFont
        ELSE LET longest == Max({ Len(baskets[i]) : i \in DOMAIN baskets })
                 last == Max({ i \in DOMAIN baskets : Len(baskets[i]) = longest })
             IN  baskets[last][1]

\* baskets.sort((a, b) => b.length - a.length)[0]: the sort is stable, so
\* the first of the longest baskets comes first.
getMostCommonFont(theFonts) ==
    LET baskets == Baskets(theFonts, <<>>)
    IN  IF baskets = <<>> THEN undefinedFont
        ELSE LET longest == Max({ Len(baskets[i]) : i \in DOMAIN baskets })
                 first == Min({ i \in DOMAIN baskets : Len(baskets[i]) = longest })
             IN  baskets[first][1]

(***************************************************************************)
(* pdfminer's <text> records of a line.  A record is concrete (it has a    *)
(* content and attributes), empty with attributes, or empty without.       *)
(***************************************************************************)
Undef == "<undefined>"

ZWSP == "<U+200B>"

CidChars == {"(cid:7)"}

Concrete(c, font, ncolour, bbox) ==
    [c |-> c, attr |-> TRUE, font |-> font, size |-> 10, ncolour |-> ncolour, bbox |-> bbox]

EmptyWithAttr(bbox) ==
    [c |-> Undef, attr |-> TRUE, font |-> "Arial", size |-> 10, ncolour |-> "[0]", bbox |-> bbox]

EmptyNoAttr ==
    [c |-> Undef, attr |-> FALSE, font |-> "", size |-> 0, ncolour |-> "", bbox |-> <<0, 0, 0, 0>>]

getValidCharacter(character) == IF character \in CidChars THEN "?" ELSE character

notAllowedChars == {ZWSP}

\* A Character, or the undefined entry an empty record maps to.
NoChar == [def |-> FALSE, content |-> "", box |-> ZeroBox, font |-> undefinedFont]

Character(box, content, font) ==
    [def |-> TRUE, content |-> content, box |-> box, font |-> font]

\* The test with the position of the empty record itself, not the next one.
thereAreFakeSpaces_SamePos(text) ==
    LET emptyWithAttr == { p \in DOMAIN text : text[p].c = Undef /\ text[p].attr }
        emptyWithNoAttr == { p \in DOMAIN text : text[p].c = Undef /\ ~text[p].attr }
    IN  \E pos \in emptyWithNoAttr : pos \in emptyWithAttr

thereAreFakeSpaces(text) ==
    LET emptyWithAttr == { p \in DOMAIN text : text[p].c = Undef /\ text[p].attr }
        emptyWithNoAttr == { p \in DOMAIN text : text[p].c = Undef /\ ~text[p].attr }
    IN  \E pos \in emptyWithNoAttr : pos + 1 \in emptyWithAttr

isFakeChar(word, fakeSpacesInLine) ==
    fakeSpacesInLine /\ word.c = Undef /\ ~word.attr

Word(charSelection) ==
    [box |-> Merge([i \in DOMAIN charSelection |-> charSelection[i].box]),
     content |-> [i \in DOMAIN charSelection |-> charSelection[i].content],
     font |-> getMostCommonFont([i \in DOMAIN charSelection |-> charSelection[i].font])]

\* chars.slice(from, to).filter(c => c !== undefined), 0-based, to exclusive.
SliceDefined(chars, from, to) ==
    SelectIdx(chars, { i \in DOMAIN chars : from < i /\ i <= to /\ chars[i].def })

\* The groups after the separators, each of them running to the end of the line.
RECURSIVE WordsAfter_ToEnd(_, _, _)
WordsAfter_ToEnd(chars, sepLocs, i) ==
    IF i > Len(sepLocs) THEN <<>>
    ELSE LET from == sepLocs[i] + 1
             to == Len(chars)
             charSelection == SliceDefined(chars, from, to)
         IN  (IF Len(charSelection) > 0 THEN <<Word(charSelection)>> ELSE <<>>)
             \o WordsAfter_ToEnd(chars, sepLocs, i + 1)

\* The Words of the groups that follow the separators sepLocs[i..].
RECURSIVE WordsAfter(_, _, _)
WordsAfter(chars, sepLocs, i) ==
    IF i > Len(sepLocs) THEN <<>>
    ELSE LET from == sepLocs[i] + 1
             to == IF i # Len(sepLocs) THEN sepLocs[i + 1] ELSE Len(chars)
             charSelection == SliceDefined(chars, from, to)
         IN  (IF Len(charSelection) > 0 THEN <<Word(charSelection)>> ELSE <<>>)
             \o WordsAfter(chars, sepLocs, i + 1)

\* The ascending sequence of the members of a set of numbers.
RECURSIVE Ascending(_)
Ascending(S) == IF S = {} THEN <<>> ELSE <<Min(S)>> \o Ascending(S \ {Min(S)})

breakLineIntoWords(text, wordSeparator, pageHeight) ==
    LET fakeSpaces == thereAreFakeSpaces(text)
        kept == SelectIdx(text, { i \in DOMAIN text :
                    text[i].c \notin notAllowedChars /\ ~isFakeChar(text[i], fakeSpaces) })
        chars0 == [i \in DOMAIN kept |->
                    IF kept[i].c = Undef THEN NoChar
                    ELSE Character(getBoundingBox(kept[i].bbox, pageHeight),
                                   getValidCharacter(kept[i].c),
                                   Font(kept[i].font, kept[i].size, kept[i].ncolour))]
        chars1 == IF chars0 # <<>> /\ (~chars0[1].def \/ chars0[1].content = wordSeparator)
                  THEN Tail(chars0) ELSE chars0
        n1 == Len(chars1)
        chars == IF chars1 # <<>> /\ (~chars1[n1].def \/ chars1[n1].content = wordSeparator)
                 THEN SubSeq(chars1, 1, n1 - 1) ELSE chars1
        \* 0-based positions of the undefined entries, position 0 left out
        sepLocs == Ascending({ i - 1 : i \in { j \in DOMAIN chars : ~chars[j].def } } \ {0})
    IN  IF Len(chars) = 0 \/ (Len(chars) = 1 /\ ~chars[1].def) THEN <<>>
        ELSE IF Len(sepLocs) = 0
             THEN <<Word(SliceDefined(chars, 0, Len(chars)))>>
             ELSE LET charSelection == SliceDefined(chars, 0, sepLocs[1])
                  IN  (IF Len(charSelection) > 0 THEN <<Word(charSelection)>> ELSE <<>>)
                      \o WordsAfter(chars, sepLocs, 1)


(***************************************************************************)
(* State.                                                                  *)
(*  line reconstruction: one call of breakLineIntoWords                    *)
(*  pdfminer backend: one call of execute                                  *)
(***************************************************************************)
VARIABLES
    line,           \* the <text> records of the textline
    wordSeparator,  \* the separator breakLineIntoWords is called with
    words,          \* the Words it returned
    linePc,         \* "ready" | "done"
    pdf2txtLocation,\* "" when getCommandLocationOnSystem found nothing
    xml,            \* what pdfminer writes: [parse, hasPages, page]
    execPc,         \* where execute stands (see ExecPcs)
    exitCode,       \* <<code>> of pdfminer's close event, <<>> before it
    docPromise,     \* the promise execute returned: [state, value]
    pagePromise,    \* per page: the promise getPage returned: [state, value]
    pageElements,   \* per page: getPage's elements before its await
    ocrRuns,        \* per page: the orchestrator.run promises that were started
    settleOrder     \* history: the pages in the order their promises settled

lineVars == <<line, wordSeparator, words, linePc>>

execVars == <<pdf2txtLocation, xml, execPc, exitCode, docPromise, pagePromise,
              pageElements, ocrRuns, settleOrder>>

(***************************************************************************)
(* Link detection: one call of LinkDetectionModule.main.  Strings are      *)
(* sequences of one-character strings.                                     *)
(***************************************************************************)
VARIABLES
    doc,             \* the Document main is called with
    dumppdfLocation, \* "" when getCommandLocationOnSystem found nothing
    dumppdf,         \* the child process: "none" | "running" | "closed"
    metaXml,         \* what dumppdf wrote, as read in the close handler
    metaPc,          \* the close handler: "none" | "parsing" | "parsed" | "parseRejected"
    metaPromise,     \* the promise of getFileMetadata
    annots,          \* what extractLinksFromMetadata returned
    linkPc,          \* main: "start" | "awaitMetadata" | "awaitLinks" | "done"
    mainPromise      \* the promise main returned

linkVars == <<doc, dumppdfLocation, dumppdf, metaXml, metaPc, metaPromise, annots,
              linkPc, mainPromise>>

(***************************************************************************)
(* Font bucketing on its own: one call of getMostCommonFont.               *)
(***************************************************************************)
VARIABLES
    fontInput,       \* the fonts getMostCommonFont is called with
    commonFont,      \* the font it returned
    fontPc           \* "idle" | "ready" | "done"

fontVars == <<fontInput, commonFont, fontPc>>

(***************************************************************************)
(* One TableOfContents element.                                            *)
(***************************************************************************)
VARIABLES
    tocContent,      \* _content: the array the element refers to
    tocItems,        \* _items
    lastReplaced,    \* history: the value of the array when content was last assigned
    mutated,         \* history: the array was changed in place since then
    itemsAssigned    \* history: the items setter was called from outside the class

tocVars == <<tocContent, tocItems, lastReplaced, mutated, itemsAssigned>>

auxVars == <<fontVars, tocVars>>

vars == <<lineVars, execVars, linkVars, auxVars>>

FontIdle ==
    /\ fontInput = <<>>
    /\ commonFont = undefinedFont
    /\ fontPc = "idle"

TocIdle ==
    /\ tocContent = <<>>
    /\ tocItems = <<>>
    /\ lastReplaced = <<>>
    /\ mutated = FALSE
    /\ itemsAssigned = FALSE

LinkIdle ==
    /\ doc = [pages |-> <<>>]
    /\ dumppdfLocation = ""
    /\ dumppdf = "none"
    /\ metaXml = [parse |-> "ok", hasPdf |-> FALSE, pages |-> <<>>]
    /\ metaPc = "none"
    /\ metaPromise = [state |-> "pending", value |-> <<>>]
    /\ annots = <<>>
    /\ linkPc = "idle"
    /\ mainPromise = [state |-> "pending", value |-> <<>>]

(***************************************************************************)
(* Line reconstruction on its own.                                         *)
(***************************************************************************)
\* x0,y0,x1,y1 of the record at position i; bold glyphs sit higher.
BBoxAt(i, raised) ==
    IF raised THEN <<10 * i, 2, 10 * i + 8, 14>> ELSE <<10 * i, 0, 10 * i + 8, 10>>

SlotKinds == {"a", "b", ",", " ", ZWSP, "(cid:7)", "emptyWithAttr", "emptyNoAttr"}

Slot(kind, i) ==
    CASE kind = "emptyWithAttr" -> EmptyWithAttr(BBoxAt(i, FALSE))
      [] kind = "emptyNoAttr" -> EmptyNoAttr
      [] kind = "b" -> Concrete("b", "Arial-Bold", "[0]", BBoxAt(i, TRUE))
      [] kind = "(cid:7)" -> Concrete(kind, "Times-Italic", "[1, 0, 0]", BBoxAt(i, FALSE))
      [] OTHER -> Concrete(kind, "Arial", "[0]", BBoxAt(i, FALSE))

LineOf(kinds) == [i \in DOMAIN kinds |-> Slot(kinds[i], i)]

\* H,e,l,l,o,<sep>,W,o,r,l,d with the given kind of record between the words.
HelloLine(sep) == LineOf(<<"H", "e", "l", "l", "o", sep, "W", "o", "r", "l", "d">>)

\* Three words of one or two characters between empty records, with a
\* zero-width space inside the second word.
ThreeWordLine(sep) == LineOf(<<"a", sep, "b", ZWSP, "a", sep, "b">>)

\* a|b, then a fake space (an attribute-less empty record before a space
\* that has attributes), then a.
FakeSpaceLine == LineOf(<<"a", "emptyNoAttr", "b", "emptyNoAttr", "emptyWithAttr", "a">>)

Lines ==
    { LineOf(k) : k \in SeqsUpTo(SlotKinds, MaxLineLen) }
    \cup {FakeSpaceLine}
    \cup { HelloLine(sep) : sep \in {" ", ",", "emptyWithAttr", "emptyNoAttr"} }
    \cup { ThreeWordLine(sep) : sep \in {"emptyWithAttr", "emptyNoAttr"} }

\* The separator: the default of breakLineIntoWords and the one getPage passes.
Separators == {" ", ","}

getPageSeparator == ","

LineInit ==
    /\ line \in Lines
    /\ wordSeparator \in Separators
    /\ words = <<>>
    /\ linePc = "ready"
    /\ pdf2txtLocation = ""
    /\ xml = [parse |-> "ok", hasPages |-> FALSE, page |-> <<>>]
    /\ execPc = "idle"
    /\ exitCode = <<>>
    /\ docPromise = [state |-> "pending", value |-> <<>>]
    /\ pagePromise = <<>>
    /\ pageElements = <<>>
    /\ ocrRuns = <<>>
    /\ settleOrder = <<>>
    /\ LinkIdle
    /\ FontIdle
    /\ TocIdle

BreakLine ==
    /\ linePc = "ready"
    /\ words' = breakLineIntoWords(line, wordSeparator, 100)
    /\ linePc' = "done"
    /\ UNCHANGED <<line, wordSeparator>>
    /\ UNCHANGED <<execVars, linkVars, auxVars>>


(***************************************************************************)
(* The pdfminer backend: execute and getPage.                              *)
(***************************************************************************)
MaxPages == 2

MaxOcrWords == 2

Pending == [state |-> "pending", value |-> <<>>]

Fulfilled(v) == [state |-> "fulfilled", value |-> v]

Rejected(v) == [state |-> "rejected", value |-> v]

\* Elements of a page: Words and Images, in one record shape.
WordElement(w) ==
    [type |-> "Word", box |-> w.box, content |-> w.content, font |-> w.font, src |-> <<>>]

Image(box, src) ==
    [type |-> "Image", box |-> box, content |-> <<>>, font |-> undefinedFont, src |-> src]

imgsLocation == "/tmp/imgs"

\* The pages pdfminer can report.  A figure's image is the list of its
\* <image> children; a figure without any has no image property.
PageBBox == <<0, 0, 60, 100>>

TextPage(id) ==
    [id |-> id, bbox |-> PageBBox,
     textbox |-> << <<LineOf(<<"a", "emptyWithAttr", "b">>)>> >>, figure |-> <<>>]

EmptyPage(id) == [id |-> id, bbox |-> PageBBox, textbox |-> <<>>, figure |-> <<>>]

FigurePage(id, nImages) ==
    [id |-> id, bbox |-> PageBBox,
     textbox |-> << <<LineOf(<<"a", ",">>)>> >>,
     figure |-> << [bbox |-> <<10, 10, 30, 40>>, hasImage |-> TRUE,
                    image |-> [i \in 1..nImages |-> <<"img", id, i>>]] >>]

BrokenFigurePage(id) ==
    [id |-> id, bbox |-> PageBBox, textbox |-> <<>>,
     figure |-> << [bbox |-> <<10, 10, 30, 40>>, hasImage |-> FALSE, image |-> <<>>] >>]

PageObjs(id) ==
    {TextPage(id), EmptyPage(id), BrokenFigurePage(id)}
    \cup { FigurePage(id, n) : n \in 1..MaxImages }

\* pdfminer numbers the pages 1, 2, ... in the order it writes them.
PageLists == UNION { { s \in [1..n -> UNION { PageObjs(id) : id \in 1..n }] :
                         \A i \in 1..n : s[i].id = i } : n \in 1..MaxPages }

Xmls ==
    { [parse |-> "error", hasPages |-> FALSE, page |-> <<>>],
      [parse |-> "ok", hasPages |-> FALSE, page |-> <<>>] }
    \cup { [parse |-> "ok", hasPages |-> TRUE, page |-> ps] : ps \in PageLists }

ExitCodes == {0, 1, 2}

ExecInit ==
    /\ pdf2txtLocation \in {"", "/usr/bin/pdf2txt.py"}
    /\ xml \in Xmls
    /\ execPc = "repairing"
    /\ exitCode = <<>>
    /\ docPromise = Pending
    /\ pagePromise = <<>>
    /\ pageElements = <<>>
    /\ ocrRuns = <<>>
    /\ settleOrder = <<>>
    /\ line = <<>>
    /\ wordSeparator = getPageSeparator
    /\ words = <<>>
    /\ linePc = "idle"
    /\ LinkIdle
    /\ FontIdle
    /\ TocIdle

interpretImages(fig, pageHeight) ==
    [i \in DOMAIN fig.image |->
        Image(getBoundingBox(fig.bbox, pageHeight), <<imgsLocation, fig.image[i]>>)]

\* getPage up to its await: the elements of the textlines and of the figures.
pageHeightOf(pageObj) == pageObj.bbox[4]

WordsOfPage(pageObj) ==
    Flatten([p \in DOMAIN pageObj.textbox |->
        Flatten([l \in DOMAIN pageObj.textbox[p] |->
            LET ws == breakLineIntoWords(pageObj.textbox[p][l], getPageSeparator,
                                         pageHeightOf(pageObj))
            IN  [k \in DOMAIN ws |-> WordElement(ws[k])]])])

ImagesOfPage(pageObj) ==
    Flatten([f \in DOMAIN pageObj.figure |->
        interpretImages(pageObj.figure[f], pageHeightOf(pageObj))])

\* fig.image.map throws when a figure has no image list.
getPageThrows(pageObj) ==
    \E f \in DOMAIN pageObj.figure : ~pageObj.figure[f].hasImage

\* The orchestrator.run promises getPage starts: one per Image element.
StartedRuns(pageObj) ==
    LET imgs == ImagesOfPage(pageObj)
    IN  [i \in DOMAIN imgs |-> [src |-> imgs[i].src, state |-> "pending", elements |-> <<>>]]

\* imgOCRPromises after the forEach: concat returns a new array, which is
\* dropped, so the array getPage awaits stays empty.
imgOCRPromises(started) == <<>>

Page(pageNumber, elements, box) ==
    [pageNumber |-> pageNumber, elements |-> elements, box |-> box]

Document(pages) == [pages |-> pages]

\* The then-callback of repairPdf: spawn throws on a command that was not found.
SpawnPdfminer ==
    /\ execPc = "repairing"
    /\ execPc' = IF pdf2txtLocation = "" THEN "spawnThrew" ELSE "spawned"
    /\ UNCHANGED <<pdf2txtLocation, xml, exitCode, docPromise, pagePromise,
                   pageElements, ocrRuns, settleOrder>>
    /\ UNCHANGED <<lineVars, linkVars, auxVars>>

\* The close handler without its else branch.
PdfminerClose_NoReject(code) ==
    /\ execPc = "spawned"
    /\ exitCode' = <<code>>
    /\ execPc' = IF code = 0 THEN "parsing" ELSE "closed"
    /\ UNCHANGED <<pdf2txtLocation, xml, docPromise, pagePromise, pageElements, ocrRuns,
                   settleOrder>>
    /\ UNCHANGED <<lineVars, linkVars, auxVars>>

\* pdfminer.on('close'): code 0 starts the parse, any other code rejects.
PdfminerClose(code) ==
    /\ execPc = "spawned"
    /\ exitCode' = <<code>>
    /\ IF code = 0
       THEN /\ execPc' = "parsing"
            /\ UNCHANGED docPromise
       ELSE /\ execPc' = "closed"
            /\ docPromise' = Rejected(code)
    /\ UNCHANGED <<pdf2txtLocation, xml, pagePromise, pageElements, ocrRuns, settleOrder>>
    /\ UNCHANGED <<lineVars, linkVars, auxVars>>

\* parseXmlToObject settles.  Its rejection has no handler; its then-callback
\* maps getPage over obj.pages.page, which runs every getPage up to its await.
ParseXmlSettles ==
    /\ execPc = "parsing"
    /\ IF xml.parse = "error"
       THEN /\ execPc' = "parseRejected"
            /\ UNCHANGED <<pagePromise, pageElements, ocrRuns>>
       ELSE IF ~xml.hasPages
       THEN /\ execPc' = "mapThrew"
            /\ UNCHANGED <<pagePromise, pageElements, ocrRuns>>
       ELSE /\ execPc' = "awaitingPages"
            /\ pagePromise' = [i \in DOMAIN xml.page |->
                                 IF getPageThrows(xml.page[i]) THEN Rejected("TypeError")
                                 ELSE Pending]
            /\ pageElements' = [i \in DOMAIN xml.page |->
                                 IF getPageThrows(xml.page[i]) THEN <<>>
                                 ELSE WordsOfPage(xml.page[i]) \o ImagesOfPage(xml.page[i])]
            /\ ocrRuns' = [i \in DOMAIN xml.page |->
                                 IF getPageThrows(xml.page[i]) THEN <<>>
                                 ELSE StartedRuns(xml.page[i])]
    /\ UNCHANGED <<pdf2txtLocation, xml, exitCode, docPromise, settleOrder>>
    /\ UNCHANGED <<lineVars, linkVars, auxVars>>

\* A nested orchestrator.run settles: with a Document of n Words, or rejected.
OcrWord(src, k) ==
    [type |-> "Word", box |-> ZeroBox, content |-> <<"ocr">>, font |-> undefinedFont,
     src |-> <<src, k>>]

OcrRunSettles(p, i, n, ok) ==
    /\ p \in DOMAIN ocrRuns
    /\ i \in DOMAIN ocrRuns[p]
    /\ ocrRuns[p][i].state = "pending"
    /\ ocrRuns' = [ocrRuns EXCEPT ![p][i] =
                     IF ok THEN [src |-> @.src, state |-> "fulfilled",
                                 elements |-> [k \in 1..n |-> OcrWord(@.src, k)]]
                     ELSE [src |-> @.src, state |-> "rejected", elements |-> <<>>]]
    /\ UNCHANGED <<pdf2txtLocation, xml, execPc, exitCode, docPromise, pagePromise,
                   pageElements, settleOrder>>
    /\ UNCHANGED <<lineVars, linkVars, auxVars>>

\* getPage after its await: Promise.all(imgOCRPromises).then(docs => new Page).
GetPageSettles(p) ==
    /\ execPc = "awaitingPages"
    /\ p \in DOMAIN pagePromise
    /\ pagePromise[p].state = "pending"
    /\ LET awaited == imgOCRPromises(ocrRuns[p])
       IN  /\ \A i \in DOMAIN awaited : awaited[i].state # "pending"
           /\ pagePromise' = [pagePromise EXCEPT ![p] =
                IF \E i \in DOMAIN awaited : awaited[i].state = "rejected"
                THEN Rejected("ocr")
                ELSE LET newElements == Flatten([i \in DOMAIN awaited |-> awaited[i].elements])
                     IN  Fulfilled(Page(xml.page[p].id, pageElements[p] \o newElements,
                                        xml.page[p].bbox))]
    /\ settleOrder' = Append(settleOrder, p)
    /\ UNCHANGED <<pdf2txtLocation, xml, execPc, exitCode, docPromise, pageElements, ocrRuns>>
    /\ UNCHANGED <<lineVars, linkVars, auxVars>>

\* Promise.all(pagePromises): the values in the order of the promises.
PromiseAllValues(promises) == [i \in DOMAIN promises |-> promises[i].value]

\* The Document assembled from the pages in the order they settled.
PagesSettle_CompletionOrder ==
    /\ execPc = "awaitingPages"
    /\ IF \E i \in DOMAIN pagePromise : pagePromise[i].state = "rejected"
       THEN /\ execPc' = "pagesRejected"
            /\ UNCHANGED docPromise
       ELSE /\ \A i \in DOMAIN pagePromise : pagePromise[i].state = "fulfilled"
            /\ execPc' = "resolved"
            /\ docPromise' = Fulfilled(Document(
                  [i \in DOMAIN settleOrder |-> pagePromise[settleOrder[i]].value]))
    /\ UNCHANGED <<pdf2txtLocation, xml, exitCode, pagePromise, pageElements, ocrRuns,
                   settleOrder>>
    /\ UNCHANGED <<lineVars, linkVars, auxVars>>

\* await Promise.all(pagePromises) returns or throws; a throw rejects the
\* promise of the then-callback, which nothing handles.
PagesSettle ==
    /\ execPc = "awaitingPages"
    /\ IF \E i \in DOMAIN pagePromise : pagePromise[i].state = "rejected"
       THEN /\ execPc' = "pagesRejected"
            /\ UNCHANGED docPromise
       ELSE /\ \A i \in DOMAIN pagePromise : pagePromise[i].state = "fulfilled"
            /\ execPc' = "resolved"
            /\ docPromise' = Fulfilled(Document(PromiseAllValues(pagePromise)))
    /\ UNCHANGED <<pdf2txtLocation, xml, exitCode, pagePromise, pageElements, ocrRuns,
                   settleOrder>>
    /\ UNCHANGED <<lineVars, linkVars, auxVars>>

ExecNext ==
    \/ SpawnPdfminer
    \/ \E code \in ExitCodes : PdfminerClose(code)
    \/ ParseXmlSettles
    \/ \E p \in 1..MaxPages, i \in 1..MaxImages, n \in {0, MaxOcrWords}, ok \in BOOLEAN :
          OcrRunSettles(p, i, n, ok)
    \/ \E p \in 1..MaxPages : GetPageSettles(p)
    \/ PagesSettle

LineNext == BreakLine

SpecLine == LineInit /\ [][LineNext]_vars

SpecExec == ExecInit /\ [][ExecNext]_vars

(***************************************************************************)
(* Claims about execute and getPage (under SpecExec).                      *)
(***************************************************************************)
RECURSIVE SumLen(_)
SumLen(runs) == IF runs = <<>> THEN 0 ELSE Len(Head(runs).elements) + SumLen(Tail(runs))

\* C1: a Page is produced only after every OCR sub-run started for it has
\* completed, and it holds the directly extracted elements plus every element
\* the sub-runs yielded.
C1_PageHoldsOcrElements ==
    \A p \in DOMAIN pagePromise :
        pagePromise[p].state = "fulfilled" =>
            /\ \A i \in DOMAIN ocrRuns[p] : ocrRuns[p][i].state # "pending"
            /\ Len(pagePromise[p].value.elements)
                  = Len(pageElements[p]) + SumLen(ocrRuns[p])

\* The XML can be parsed and converted into pages.
Convertible(x) ==
    /\ x.parse = "ok"
    /\ x.hasPages
    /\ \A i \in DOMAIN x.page : ~getPageThrows(x.page[i])

PrimaryExtractionFails ==
    \/ pdf2txtLocation = ""
    \/ exitCode = <<0>> /\ ~Convertible(xml)

\* C3: when primary extraction cannot succeed, the promise of execute does
\* not stay pending: once execute can take no further step it is rejected.
C3_FailureRejects ==
    (PrimaryExtractionFails /\ ~ENABLED ExecNext) => docPromise.state = "rejected"

\* C8: the promise of execute is rejected, with the exit code, exactly when
\* pdfminer closed with a non-zero exit code.
C8_RejectedIffNonZeroExit ==
    /\ docPromise.state = "rejected" <=> (exitCode # <<>> /\ exitCode[1] # 0)
    /\ docPromise.state = "rejected" => docPromise.value = exitCode[1]

C8_Witness ==
    /\ docPromise.state = "rejected"
    /\ exitCode = <<2>>

\* C10: the Document is resolved only after every getPage completed, and
\* holds one Page per source page, in the order of the page numbers.
C10_DocumentAfterAllPages ==
    docPromise.state = "fulfilled" =>
        LET pages == docPromise.value.pages
        IN  /\ \A p \in DOMAIN pagePromise : pagePromise[p].state = "fulfilled"
            /\ Len(pages) = Len(xml.page)
            /\ \A i \in DOMAIN pages : pages[i].pageNumber = xml.page[i].id
            /\ \A i, j \in DOMAIN pages : i < j => pages[i].pageNumber < pages[j].pageNumber
            /\ \A i \in DOMAIN pages : pages[i].elements = pagePromise[i].value.elements

C10_Witness ==
    /\ docPromise.state = "fulfilled"
    /\ Len(xml.page) >= 2
    /\ settleOrder[1] # 1


(***************************************************************************)
(* Link detection: the two patterns of matchTextualLinks.                  *)
(***************************************************************************)
Lower == {"a", "b", "c", "d", "e", "f", "g", "h", "i", "j", "k", "l", "m",
          "n", "o", "p", "q", "r", "s", "t", "u", "v", "w", "x", "y", "z"}

Upper == {"A", "B", "C", "D", "E", "F", "G", "H", "I", "J", "K", "L", "M",
          "N", "O", "P", "Q", "R", "S", "T", "U", "V", "W", "X", "Y", "Z"}

Digits == {"0", "1", "2", "3", "4", "5", "6", "7", "8", "9"}

\* \w and \s
WordChars == Lower \cup Upper \cup Digits \cup {"_"}

SpaceChars == {" "}

\* t.substring(i - 1, j), 1-based and inclusive
Sub(t, i, j) == IF i > j THEN <<>> ELSE SubSeq(t, i, j)

StartsAt(t, i, pat) ==
    /\ i + Len(pat) - 1 <= Len(t)
    /\ \A k \in 1..Len(pat) : t[i + k - 1] = pat[k]

\* /\b((http|https):\/\/?)[^\s()<>]+(?:\([\w\d]+\)|([^[:punct:]\s]|\/?))/
\* The last group matches the empty string (its \/? alternative), so a match
\* is: a word boundary, http or https, a colon, one or two slashes, and at
\* least one character that is no white space and none of ( ) < >.
linkRegexp(t) ==
    \E i \in 1..Len(t) :
        /\ i = 1 \/ t[i - 1] \notin WordChars
        /\ \E scheme \in {<<"h", "t", "t", "p">>, <<"h", "t", "t", "p", "s">>} :
            /\ StartsAt(t, i, scheme \o <<":", "/">>)
            /\ LET k == i + Len(scheme) + 2
               IN  \E slashes \in {0, 1} :
                     /\ slashes = 1 => StartsAt(t, k, <<"/">>)
                     /\ k + slashes <= Len(t)
                     /\ t[k + slashes] \notin SpaceChars \cup {"(", ")", "<", ">"}

\* [\w-]+(?:\.[\w-]+)* : non-empty runs of \w and - separated by single dots
Dotted(t) ==
    /\ t # <<>>
    /\ \A i \in 1..Len(t) : t[i] \in WordChars \cup {"-", "."}
    /\ t[1] # "." /\ t[Len(t)] # "."
    /\ \A i \in 1..(Len(t) - 1) : ~(t[i] = "." /\ t[i + 1] = ".")

\* "[\w-\s]+"
Quoted(t) ==
    /\ Len(t) >= 3
    /\ t[1] = "\"" /\ t[Len(t)] = "\""
    /\ \A i \in 2..(Len(t) - 1) : t[i] \in WordChars \cup SpaceChars \cup {"-"}

\* ("[\w-\s]+")|([\w-]+(?:\.[\w-]+)*)|("[\w-\s]+")([\w-]+(?:\.[\w-]+)*)
LocalPart(t) ==
    \/ Quoted(t)
    \/ Dotted(t)
    \/ \E k \in 1..Len(t) : Quoted(Sub(t, 1, k)) /\ Dotted(Sub(t, k + 1, Len(t)))

\* (?:[\w-]+\.)*\w[\w-]{0,66}
DomainName(t) ==
    /\ t # <<>>
    /\ \E k \in 1..Len(t) :
          \* the last label starts at k
          /\ t[k] \in WordChars
          /\ \A i \in k..Len(t) : t[i] \in WordChars \cup {"-"}
          /\ Len(t) - k <= 66
          /\ k = 1 \/ (t[k - 1] = "." /\ k > 2 /\ Dotted(Sub(t, 1, k - 2)))

\* [a-z]{2,6}(?:\.[a-z]{2})?
TopLevel(t) ==
    LET letters(u) == \A i \in 1..Len(u) : u[i] \in Lower
    IN  \/ Len(t) \in 2..6 /\ letters(t)
        \/ /\ Len(t) \in 5..9
           /\ t[Len(t) - 2] = "."
           /\ letters(Sub(t, 1, Len(t) - 3))
           /\ letters(Sub(t, Len(t) - 1, Len(t)))

\* 25[0-5]|2[0-4][0-9]|1[0-9]{2}|[0-9]{1,2}
Octet(t) ==
    /\ \A i \in 1..Len(t) : t[i] \in Digits
    /\ \/ Len(t) \in {1, 2}
       \/ Len(t) = 3 /\ t[1] = "1"
       \/ Len(t) = 3 /\ t[1] = "2" /\ t[2] \in {"0", "1", "2", "3", "4"}
       \/ Len(t) = 3 /\ t[1] = "2" /\ t[2] = "5" /\ t[3] \in {"0", "1", "2", "3", "4", "5"}

\* \[?(octet\.)(octet\.){2}octet\]?$
IpTail(t) ==
    \E open \in {0, 1}, close \in {0, 1} :
        /\ open = 1 => (t # <<>> /\ t[1] = "[")
        /\ close = 1 => (t # <<>> /\ t[Len(t)] = "]")
        /\ LET u == Sub(t, 1 + open, Len(t) - close)
           IN  \E a, b, c \in 1..Len(u) :
                 /\ a < b /\ b < c
                 /\ u[a] = "." /\ u[b] = "." /\ u[c] = "."
                 /\ Octet(Sub(u, 1, a - 1)) /\ a > 1
                 /\ Octet(Sub(u, a + 1, b - 1)) /\ b > a + 1
                 /\ Octet(Sub(u, b + 1, c - 1)) /\ c > b + 1
                 /\ Octet(Sub(u, c + 1, Len(u))) /\ c < Len(u)

\* /^(local)(@(domain)\.(tld)$)|(@ip$)/ : the first alternative is anchored
\* at both ends, the second one only at the end.
mailRegexp(t) ==
    \/ \E at \in 1..Len(t), dot \in 1..Len(t) :
          /\ t[at] = "@" /\ t[dot] = "." /\ at < dot
          /\ LocalPart(Sub(t, 1, at - 1))
          /\ DomainName(Sub(t, at + 1, dot - 1))
          /\ TopLevel(Sub(t, dot + 1, Len(t)))
    \/ \E at \in 1..Len(t) : t[at] = "@" /\ IpTail(Sub(t, at + 1, Len(t)))

(***************************************************************************)
(* Word properties: a set of <<key, value>> pairs, at most one per key.    *)
(***************************************************************************)
Keys(properties) == { kv[1] : kv \in properties }

Get(properties, key) == (CHOOSE kv \in properties : kv[1] = key)[2]

Put(properties, key, value) ==
    { kv \in properties : kv[1] # key } \cup {<<key, value>>}

\* !word.properties.link : no link property, or an empty one
NoLink(properties) == "link" \notin Keys(properties) \/ Get(properties, "link") = <<>>

\* the two assignments of a link and its target
WithLink(properties, link, targetURL) ==
    Put(Put(properties, "link", link), "targetURL", targetURL)

Mailto == <<"m", "a", "i", "l", "t", "o", ":">>

Markdown(text, target) == <<"[">> \o text \o <<"]", "(">> \o target \o <<")">>

matchTextualLinks(word) ==
    IF linkRegexp(word.text)
    THEN [word EXCEPT !.properties = WithLink(@, Markdown(word.text, word.text), word.text)]
    ELSE IF mailRegexp(word.text)
    THEN [word EXCEPT !.properties =
            WithLink(@, Markdown(word.text, Mailto \o word.text), Mailto \o word.text)]
    ELSE word

\* The texts of the Words of the model.
TUrl == <<"h", "t", "t", "p", "s", ":", "/", "/", "e", "x", "a", "m", "p", "l", "e", ".", "c", "o", "m">>

TUrlParen == <<"(", "h", "t", "t", "p", ":", "/", "x", ")">>

TNoBoundary == <<"x", "h", "t", "t", "p", ":", "/", "/", "a">>

TBareScheme == <<"h", "t", "t", "p", ":", "/">>

TMail == <<"a", ".", "b", "@", "c", "-", "d", ".", "c", "o">>

TShortTld == <<"a", "@", "b", ".", "c">>

TIpMail == <<"(", "x", ")", "@", "[", "1", ".", "2", ".", "3", ".", "4", "]">>

TUrlAndIp == <<"h", "t", "t", "p", ":", "/", "/", "a", "@", "1", ".", "2", ".", "3", ".", "4">>

THello == <<"H", "e", "l", "l", "o">>

Texts == {TUrl, TUrlParen, TNoBoundary, TBareScheme, TMail, TShortTld, TIpMail, TUrlAndIp, THello}


(***************************************************************************)
(* Link detection: the metadata dumppdf writes.  The object graph is kept  *)
(* as the page objects in document order, each with the objects its Annots *)
(* references lead to: an annotation dictionary, a list of further         *)
(* references, or nothing (an id no object has).                           *)
(***************************************************************************)
DictObj(hasRect, rect, S, key, string) ==
    [kind |-> "dict", hasRect |-> hasRect, rect |-> rect, S |-> S, key |-> key,
     string |-> string, refs |-> <<>>]

ListObj(refs) ==
    [kind |-> "list", hasRect |-> FALSE, rect |-> <<0, 0, 0, 0>>, S |-> "", key |-> "",
     string |-> <<>>, refs |-> refs]

MissingObj ==
    [kind |-> "missing", hasRect |-> FALSE, rect |-> <<0, 0, 0, 0>>, S |-> "", key |-> "",
     string |-> <<>>, refs |-> <<>>]

PageObject(hasAnnots, hasMediaBox, refs) ==
    [hasAnnots |-> hasAnnots, hasMediaBox |-> hasMediaBox, mediaBox |-> <<0, 0, 60, 100>>,
     refs |-> refs]

\* deepSearchObjectsWithIds: the dictionaries the references lead to, in
\* order; obj.dict of an id without object throws.
RECURSIVE deepSearchThrows(_)
deepSearchThrows(refs) ==
    \E i \in DOMAIN refs :
        \/ refs[i].kind = "missing"
        \/ refs[i].kind = "list" /\ deepSearchThrows(refs[i].refs)

RECURSIVE deepSearchObjectsWithIds(_)
deepSearchObjectsWithIds(refs) ==
    IF refs = <<>> THEN <<>>
    ELSE (IF Head(refs).kind = "dict" THEN <<Head(refs)>>
          ELSE deepSearchObjectsWithIds(Head(refs).refs))
         \o deepSearchObjectsWithIds(Tail(refs))

\* parseLinkByActionType / parseAction: the string under the key D for a
\* GoTo action, under the key named like the action type otherwise.
ActionKey(type) == IF type = "GoTo" THEN "D" ELSE type

parseLinkThrows(annot) == annot.key # ActionKey(annot.S)

parseLinkByActionType(annot) == [target |-> annot.string, type |-> annot.S]

\* The annotation of a page: its Rect, flipped with the page's height.
PageAnnot(annot, pageHeight, page) ==
    LET numbers == annot.rect
    IN  [box |-> [l |-> numbers[1], t |-> pageHeight - numbers[4],
                  w |-> numbers[3] - numbers[1], h |-> numbers[4] - numbers[2]],
         link |-> parseLinkByActionType(annot),
         page |-> page]

\* The callback of pagesWithAnnots.forEach throws.
PageThrows(pageObject) ==
    \/ ~pageObject.hasMediaBox
    \/ deepSearchThrows(pageObject.refs)
    \/ LET found == deepSearchObjectsWithIds(pageObject.refs)
       IN  \E i \in DOMAIN found : ~found[i].hasRect \/ parseLinkThrows(found[i])

\* annots after the pages from index i on: a throw ends the loop and keeps
\* what the earlier pages pushed.
RECURSIVE AnnotsFrom(_, _, _)
AnnotsFrom(pages, i, acc) ==
    IF i > Len(pages) THEN acc
    ELSE IF ~pages[i].hasAnnots THEN AnnotsFrom(pages, i + 1, acc)
    ELSE IF PageThrows(pages[i]) THEN acc
    ELSE LET found == deepSearchObjectsWithIds(pages[i].refs)
             pageAnnots == [k \in DOMAIN found |->
                              PageAnnot(found[k], pages[i].mediaBox[4], i)]
         IN  AnnotsFrom(pages, i + 1, acc \o pageAnnots)

\* extractLinksFromMetadata after its await: the destructuring throws when
\* the object has no pdf.
extractLinksFromMetadata(settled) ==
    IF settled.state = "rejected" THEN <<>>
    ELSE IF ~settled.value.hasPdf THEN <<>>
    ELSE AnnotsFrom(settled.value.pages, 1, <<>>)

(***************************************************************************)
(* Link detection: geometric matching.                                     *)
(***************************************************************************)
\* BoundingBox.getPercentageOfInclusion(a, b) as <<numerator, denominator>>:
\* the area of the intersection over the area of a.
getPercentageOfInclusion(a, b) == <<IntersectionArea(a, b), Area(a)>>

\* Math.abs(ratio) > 0.7; 0 / 0 is NaN, which exceeds nothing.
ExceedsThreshold(ratio) ==
    ratio[2] # 0 /\ Abs(ratio[1]) * 10 > 7 * Abs(ratio[2])

linkBB(l) == BoundingBox(l.box.l, l.box.t, l.box.w, l.box.h)

LinkMatches(l, word) == ExceedsThreshold(getPercentageOfInclusion(linkBB(l), word.box))

buildLinkMD(word, l) ==
    LET target == IF l.link.type = "GoTo" THEN <<"#">> \o l.link.target ELSE l.link.target
    IN  [link |-> Markdown(word.text, target), targetURL |-> target]

\* links.forEach stopping at the first match.
RECURSIVE ForEachLink_FirstMatch(_, _)
ForEachLink_FirstMatch(word, links) ==
    IF links = <<>> THEN word
    ELSE IF LinkMatches(Head(links), word)
         THEN LET md == buildLinkMD(word, Head(links))
              IN  [word EXCEPT !.properties = WithLink(@, md.link, md.targetURL)]
         ELSE ForEachLink_FirstMatch(word, Tail(links))

\* links.forEach(link => ...): every matching link overwrites the properties.
RECURSIVE ForEachLink(_, _)
ForEachLink(word, links) ==
    IF links = <<>> THEN word
    ELSE ForEachLink(
            IF LinkMatches(Head(links), word)
            THEN LET md == buildLinkMD(word, Head(links))
                 IN  [word EXCEPT !.properties = WithLink(@, md.link, md.targetURL)]
            ELSE word,
            Tail(links))

\* The textual fallback tried on every word.
TextualFallback_Always(word) == matchTextualLinks(word)

\* if (!word.properties.link) this.matchTextualLinks(word)
TextualFallback(word) ==
    IF NoLink(word.properties) THEN matchTextualLinks(word) ELSE word

\* mdLinks.filter(link => parseInt(link.page, 10) === page.pageNumber)
LinksOfPage(mdLinks, pageNumber) ==
    SelectIdx(mdLinks, { i \in DOMAIN mdLinks : mdLinks[i].page = pageNumber })

\* mdLinks.map((link, id) => ({...link, id})), ids from 0
WithIds(links) ==
    [i \in DOMAIN links |->
        [box |-> links[i].box, link |-> links[i].link, page |-> links[i].page, id |-> i - 1]]

\* The body of main after its await.
mainBody(d, links) ==
    LET mdLinks == WithIds(links)
    IN  [pages |-> [p \in DOMAIN d.pages |->
            [pageNumber |-> d.pages[p].pageNumber,
             words |-> [w \in DOMAIN d.pages[p].words |->
                TextualFallback(ForEachLink(d.pages[p].words[w],
                                            LinksOfPage(mdLinks, d.pages[p].pageNumber)))]]]]


(***************************************************************************)
(* Link detection: the inputs of the model.                                *)
(***************************************************************************)
\* Every Word of the model has this box (left 10, top 20, 10 x 10).
WordBox == BoundingBox(10, 20, 10, 10)

LWord(text, properties) == [text |-> text, box |-> WordBox, properties |-> properties]

PreLinked == LWord(THello, {<<"link", <<"p", "r", "e">>>>, <<"targetURL", <<"p", "r", "e">>>>})

\* The words that are combined freely, and those that come alone.
WordPool == { LWord(t, {}) : t \in {TUrl, TNoBoundary, TMail, TShortTld, TUrlAndIp, THello} }

LoneWords == { LWord(t, {}) : t \in Texts } \cup {PreLinked}

Docs ==
    { [pages |-> << [pageNumber |-> 1, words |-> ws],
                    [pageNumber |-> 2, words |-> <<LWord(THello, {})>>] >>] :
        ws \in SeqsUpTo(WordPool, MaxWords) \cup { <<w>> : w \in LoneWords } }

\* Rects in PDF space (x0, y0, x1, y1, origin bottom left) on a page of
\* height 100.  Flipped, they cover of the Word's box: its left 80% and
\* nothing else; its right 80%; its left 80% within a 100 x 100 box; its
\* right 70%; nothing.
RTight80 == <<10, 70, 18, 80>>

RShift80 == <<12, 70, 22, 80>>

RBig80 == <<-82, 20, 18, 120>>

RExact70 == <<13, 70, 23, 80>>

RFar == <<40, 0, 50, 10>>

AUri == DictObj(TRUE, RTight80, "URI", "URI", <<"u", "1">>)

AGoTo == DictObj(TRUE, RShift80, "GoTo", "D", <<"d", "1">>)

ABig == DictObj(TRUE, RBig80, "URI", "URI", <<"u", "2">>)

AExact70 == DictObj(TRUE, RExact70, "URI", "URI", <<"u", "3">>)

AFar == DictObj(TRUE, RFar, "URI", "URI", <<"u", "4">>)

AOther == DictObj(TRUE, RShift80, "URI", "URI", <<"u", "9">>)

ANoRect == DictObj(FALSE, <<0, 0, 0, 0>>, "URI", "URI", <<"u", "5">>)

ANoKey == DictObj(TRUE, RTight80, "GoTo", "GoTo", <<"d", "2">>)

\* The annotations that are combined freely, and the lists that come as
\* they are: nested references, a dictionary without Rect, a dangling id.
AnnotPool == {AUri, AGoTo, ABig, AExact70}

FirstPageRefs ==
    SeqsUpTo(AnnotPool, MaxAnnots)
    \cup { <<ListObj(<<AGoTo, ListObj(<<AUri>>)>>)>>, <<AFar>>, <<ANoRect>>,
           <<AUri, MissingObj>>, <<ListObj(<<MissingObj>>), AUri>> }

SecondPageRefs == { <<>>, <<AOther>>, <<ANoKey>> }

MetaPages ==
    { << PageObject(r1 # <<>>, TRUE, r1), PageObject(r2 # <<>>, TRUE, r2) >> :
        r1 \in FirstPageRefs, r2 \in SecondPageRefs }
    \cup { << PageObject(TRUE, FALSE, <<AUri>>), PageObject(TRUE, TRUE, <<AOther>>) >> }

NoMeta == [parse |-> "ok", hasPdf |-> FALSE, pages |-> <<>>]

MetaXmls ==
    { [parse |-> "error", hasPdf |-> FALSE, pages |-> <<>>], NoMeta }
    \cup { [parse |-> "ok", hasPdf |-> TRUE, pages |-> ps] : ps \in MetaPages }

LinkInit ==
    /\ doc \in Docs
    /\ dumppdfLocation \in {"", "/usr/bin/dumppdf.py"}
    /\ dumppdf = "none"
    /\ metaXml = NoMeta
    /\ metaPc = "none"
    /\ metaPromise = Pending
    /\ annots = <<>>
    /\ linkPc = "start"
    /\ mainPromise = Pending
    /\ line = <<>>
    /\ wordSeparator = getPageSeparator
    /\ words = <<>>
    /\ linePc = "idle"
    /\ pdf2txtLocation = ""
    /\ xml = [parse |-> "ok", hasPages |-> FALSE, page |-> <<>>]
    /\ execPc = "idle"
    /\ exitCode = <<>>
    /\ docPromise = Pending
    /\ pagePromise = <<>>
    /\ pageElements = <<>>
    /\ ocrRuns = <<>>
    /\ settleOrder = <<>>
    /\ FontIdle
    /\ TocIdle

(***************************************************************************)
(* Link detection: main, getFileMetadata and the events of dumppdf.        *)
(***************************************************************************)
\* A promise that takes the outcome of every call of resolve or reject.
Settle_LastCallWins(promise, outcome) == outcome

\* resolve and reject settle a promise once; later calls change nothing.
Settle(promise, outcome) == IF promise.state = "pending" THEN outcome ELSE promise

\* spawn starting a child for a command that was not found.
Main_SpawnsAnyway ==
    /\ linkPc = "start"
    /\ linkPc' = "awaitMetadata"
    /\ dumppdf' = "running"
    /\ UNCHANGED <<doc, dumppdfLocation, metaXml, metaPc, metaPromise, annots, mainPromise>>
    /\ UNCHANGED <<lineVars, execVars, auxVars>>

\* main up to its await: extractLinksFromMetadata calls getFileMetadata,
\* whose executor spawns dumppdf; spawn throws on a command that was not
\* found, which rejects the promise under construction.
Main ==
    /\ linkPc = "start"
    /\ linkPc' = "awaitMetadata"
    /\ IF dumppdfLocation = ""
       THEN /\ metaPromise' = Rejected("TypeError")
            /\ UNCHANGED dumppdf
       ELSE /\ dumppdf' = "running"
            /\ UNCHANGED metaPromise
    /\ UNCHANGED <<doc, dumppdfLocation, metaXml, metaPc, annots, mainPromise>>
    /\ UNCHANGED <<lineVars, execVars, auxVars>>

\* dumppdf.stderr.on('data'): reject(data)
DumppdfStderr ==
    /\ dumppdf = "running"
    /\ metaPromise' = Settle(metaPromise, Rejected("stderr"))
    /\ UNCHANGED <<doc, dumppdfLocation, dumppdf, metaXml, metaPc, annots, linkPc,
                   mainPromise>>
    /\ UNCHANGED <<lineVars, execVars, auxVars>>

\* dumppdf.on('close'): code 0 reads the file m and starts the parse, any
\* other code rejects.
DumppdfClose(code, m) ==
    /\ dumppdf = "running"
    /\ dumppdf' = "closed"
    /\ IF code = 0
       THEN /\ metaXml' = m
            /\ metaPc' = "parsing"
            /\ UNCHANGED metaPromise
       ELSE /\ metaPromise' = Settle(metaPromise, Rejected("code"))
            /\ UNCHANGED <<metaXml, metaPc>>
    /\ UNCHANGED <<doc, dumppdfLocation, annots, linkPc, mainPromise>>
    /\ UNCHANGED <<lineVars, execVars, auxVars>>

\* utils.parseXmlToObject(xml) settles: then(obj => resolve(obj)); its
\* rejection has no handler.
MetaParseSettles ==
    /\ metaPc = "parsing"
    /\ IF metaXml.parse = "error"
       THEN /\ metaPc' = "parseRejected"
            /\ UNCHANGED metaPromise
       ELSE /\ metaPc' = "parsed"
            /\ metaPromise' = Settle(metaPromise, Fulfilled(metaXml))
    /\ UNCHANGED <<doc, dumppdfLocation, dumppdf, metaXml, annots, linkPc, mainPromise>>
    /\ UNCHANGED <<lineVars, execVars, auxVars>>

\* extractLinksFromMetadata resumes after await this.getFileMetadata(file).
ExtractLinksResumes ==
    /\ linkPc = "awaitMetadata"
    /\ metaPromise.state # "pending"
    /\ annots' = extractLinksFromMetadata(metaPromise)
    /\ linkPc' = "awaitLinks"
    /\ UNCHANGED <<doc, dumppdfLocation, dumppdf, metaXml, metaPc, metaPromise, mainPromise>>
    /\ UNCHANGED <<lineVars, execVars, auxVars>>

\* main resumes after await this.extractLinksFromMetadata(doc.inputFile).
MainResumes ==
    /\ linkPc = "awaitLinks"
    /\ mainPromise' = Fulfilled(mainBody(doc, annots))
    /\ linkPc' = "done"
    /\ UNCHANGED <<doc, dumppdfLocation, dumppdf, metaXml, metaPc, metaPromise, annots>>
    /\ UNCHANGED <<lineVars, execVars, auxVars>>

LinkNext ==
    \/ Main
    \/ DumppdfStderr
    \/ \E code \in ExitCodes, m \in MetaXmls :
          DumppdfClose(code, IF code = 0 THEN m ELSE NoMeta)
    \/ MetaParseSettles
    \/ ExtractLinksResumes
    \/ MainResumes

SpecLink == LinkInit /\ [][LinkNext]_vars


(***************************************************************************)
(* Claims about line reconstruction (under SpecLine).                      *)
(***************************************************************************)
TextsOf(ws) == [i \in DOMAIN ws |-> ws[i].content]

\* The merge of the boxes of the records at positions from..to of the line.
BoxOfRecords(text, from, to, pageHeight) ==
    Merge([i \in 1..(to - from + 1) |-> getBoundingBox(text[from + i - 1].bbox, pageHeight)])

\* C5: the line H,e,l,l,o,<sep>,W,o,r,l,d, <sep> being the word separator
\* getPage passes, yields the two Words Hello and World, in that order, each
\* with the merged box of its own characters.
C5_HelloWorldTwoWords ==
    (linePc = "done" /\ wordSeparator = getPageSeparator /\ line = HelloLine(wordSeparator)) =>
        /\ TextsOf(words) = << <<"H", "e", "l", "l", "o">>, <<"W", "o", "r", "l", "d">> >>
        /\ words[1].box = BoxOfRecords(line, 1, 5, 100)
        /\ words[2].box = BoxOfRecords(line, 7, 11, 100)

\* The positions of the line's records that stay after the invisible
\* characters and the fake spaces were dropped, in ascending order.
RetainedPositions ==
    Ascending({ i \in DOMAIN line :
                  /\ line[i].c \notin notAllowedChars
                  /\ ~isFakeChar(line[i], thereAreFakeSpaces(line)) })

\* A record the trimming drops at an end of the line: it is empty or its
\* character is the word separator.
Trimmable(rec) == rec.c = Undef \/ getValidCharacter(rec.c) = wordSeparator

\* Positions r of the line after the trimming of one record at each end.
TrimmedOf(r) ==
    LET r1 == IF r # <<>> /\ Trimmable(line[r[1]]) THEN Tail(r) ELSE r
    IN  IF r1 # <<>> /\ Trimmable(line[r1[Len(r1)]]) THEN SubSeq(r1, 1, Len(r1) - 1) ELSE r1

\* The maximal runs of concrete characters among the positions t of the
\* line, as pairs <<from, to>> of indices of t.
RunsOf(t) ==
    LET concrete(k) == line[t[k]].c # Undef
    IN  { r \in (DOMAIN t) \X (DOMAIN t) :
            /\ r[1] <= r[2]
            /\ \A k \in r[1]..r[2] : concrete(k)
            /\ r[1] = 1 \/ ~concrete(r[1] - 1)
            /\ r[2] = Len(t) \/ ~concrete(r[2] + 1) }

\* The runs in line order.
InOrder(runs) ==
    LET starts == Ascending({ r[1] : r \in runs })
    IN  [k \in DOMAIN starts |-> CHOOSE r \in runs : r[1] = starts[k]]

TrimmedPositions == TrimmedOf(RetainedPositions)

RunsInOrder == InOrder(RunsOf(TrimmedPositions))

\* C12: breakLineIntoWords returns one Word per maximal run of concrete
\* characters of the trimmed line, in line order; the Word holds exactly the
\* characters of its run (at least one), in order, and its box is the merge
\* of their boxes; a line with nothing left yields no Word.
C12_WordsAreMaximalRuns ==
    linePc = "done" =>
        LET t == TrimmedPositions
            runs == RunsInOrder
        IN  /\ Len(words) = Len(runs)
            /\ \A k \in DOMAIN words :
                  LET from == runs[k][1]
                      to == runs[k][2]
                  IN  /\ Len(words[k].content) >= 1
                      /\ words[k].content =
                            [m \in 1..(to - from + 1) |->
                                getValidCharacter(line[t[from + m - 1]].c)]
                      /\ words[k].box =
                            Merge([m \in 1..(to - from + 1) |->
                                getBoundingBox(line[t[from + m - 1]].bbox, 100)])
            /\ (t = <<>> => words = <<>>)

\* Three Words come out of a line from which a zero-width space was dropped.
C12_Witness ==
    /\ linePc = "done"
    /\ Len(words) = 3
    /\ Len(words[2].content) = 2
    /\ Len(RetainedPositions) < Len(line)


\* The attribute-less empty records of the line, and those of them that an
\* empty record with attributes follows immediately.
AttrLess == { p \in DOMAIN line : line[p].c = Undef /\ ~line[p].attr }

FollowedByEmptyWithAttr ==
    { p \in AttrLess : p + 1 \in DOMAIN line /\ line[p + 1].c = Undef /\ line[p + 1].attr }

\* The texts of the Words of the line when the attribute-less empty records
\* in excluded, and only they, are left out with the invisible characters.
TextsWithout(excluded) ==
    LET t == TrimmedOf(Ascending({ i \in DOMAIN line :
                          line[i].c \notin notAllowedChars /\ i \notin excluded }))
        runs == InOrder(RunsOf(t))
    IN  [k \in DOMAIN runs |->
            [m \in 1..(runs[k][2] - runs[k][1] + 1) |->
                getValidCharacter(line[t[runs[k][1] + m - 1]].c)]]

\* C14 as stated: an attribute-less empty record is left out exactly when
\* an empty record with attributes follows it immediately; every other one
\* stays and separates words, also in a line that has a fake space.
C14_OnlyFollowedSlotsExcluded ==
    linePc = "done" => TextsOf(words) = TextsWithout(FollowedByEmptyWithAttr)

\* C14 amended: when some attribute-less empty record of the line is
\* immediately followed by an empty record with attributes, every
\* attribute-less empty record of the line is left out; otherwise none is.
C14_AllOrNoneExcluded ==
    linePc = "done" =>
        TextsOf(words) =
            TextsWithout(IF FollowedByEmptyWithAttr # {} THEN AttrLess ELSE {})

\* A line with a fake space and, elsewhere, an attribute-less empty record
\* between two characters: the two characters end up in one Word.
C14_Witness ==
    /\ linePc = "done"
    /\ FollowedByEmptyWithAttr # {}
    /\ \E p \in AttrLess \ FollowedByEmptyWithAttr :
          /\ p - 1 \in DOMAIN line /\ line[p - 1].c = "a"
          /\ p + 1 \in DOMAIN line /\ line[p + 1].c = "b"
    /\ \E k \in DOMAIN words : words[k].content = <<"a", "b">>

(***************************************************************************)
(* Claims about link detection (under SpecLink).                           *)
(***************************************************************************)
WordsAt == { <<p, w>> : p \in DOMAIN doc.pages, w \in 1..MaxWords }

WordSlots == { pw \in WordsAt : pw[2] \in DOMAIN doc.pages[pw[1]].words }

InWord(pw) == doc.pages[pw[1]].words[pw[2]]

OutWord(pw) == mainPromise.value.pages[pw[1]].words[pw[2]]

\* The annotations of the word's page, and those whose overlap ratio with
\* the word exceeds 0.7, as positions in the annotation list.
OnPage(pw) == { i \in DOMAIN annots : annots[i].page = doc.pages[pw[1]].pageNumber }

Matching(pw) == { i \in OnPage(pw) : LinkMatches(annots[i], InWord(pw)) }

HasLinkOf(pw, i) ==
    /\ {"link", "targetURL"} \subseteq Keys(OutWord(pw).properties)
    /\ Get(OutWord(pw).properties, "link") = buildLinkMD(InWord(pw), annots[i]).link
    /\ Get(OutWord(pw).properties, "targetURL") = buildLinkMD(InWord(pw), annots[i]).targetURL

\* C2: whatever dumppdf does, main returns the Document: once nothing more
\* can happen its promise is fulfilled, and it is never rejected.
C2_MainAlwaysReturns ==
    /\ mainPromise.state # "rejected"
    /\ ~ENABLED LinkNext => mainPromise.state = "fulfilled"

\* C4: a word whose page has exactly one annotation, covering 80% of the
\* word's box, gets the link and targetURL of that annotation.
C4_EightyPercentCoverLinks ==
    linkPc = "done" =>
        \A pw \in WordSlots : \A i \in OnPage(pw) :
            (OnPage(pw) = {i}
             /\ 10 * IntersectionArea(linkBB(annots[i]), InWord(pw).box)
                  = 8 * Area(InWord(pw).box))
            => HasLinkOf(pw, i)

\* C6: a word has the link of the last annotation of its page whose overlap
\* ratio with it exceeds 0.7, and no annotation's link when there is none.
C6_LastMatchWins ==
    linkPc = "done" =>
        \A pw \in WordSlots :
            IF Matching(pw) # {}
            THEN HasLinkOf(pw, Max(Matching(pw)))
            ELSE \A i \in DOMAIN annots : ~HasLinkOf(pw, i)

C6_Witness ==
    /\ linkPc = "done"
    /\ \E pw \in WordSlots :
          /\ Cardinality(Matching(pw)) >= 2
          /\ ~HasLinkOf(pw, Min(Matching(pw)))
          /\ OnPage(pw) # DOMAIN annots

UrlExample == <<"[", "h", "t", "t", "p", "s", ":", "/", "/", "e", "x", "a", "m", "p", "l", "e", ".", "c", "o", "m", "]", "(", "h", "t", "t", "p", "s", ":", "/", "/", "e", "x", "a", "m", "p", "l", "e", ".", "c", "o", "m", ")">>

\* C7: the textual fallback applies exactly to the words without a link
\* after the geometric matching: a URL gets [text](text) and text, else a
\* mail address gets [text](mailto:text), else the word has no property; a
\* geometry-derived link is never replaced.
C7_TextualFallback ==
    linkPc = "done" =>
        \A pw \in WordSlots :
            LET in == InWord(pw)
                out == OutWord(pw).properties
            IN  IF Matching(pw) # {} THEN HasLinkOf(pw, Max(Matching(pw)))
                ELSE IF ~NoLink(in.properties) THEN out = in.properties
                ELSE IF linkRegexp(in.text)
                THEN /\ out = { <<"link", <<"[">> \o in.text \o <<"]", "(">> \o in.text \o <<")">> >>,
                                <<"targetURL", in.text>> }
                     /\ in.text = TUrl => Get(out, "link") = UrlExample
                ELSE IF mailRegexp(in.text)
                THEN Get(out, "link")
                       = <<"[">> \o in.text \o <<"]", "(">> \o Mailto \o in.text \o <<")">>
                ELSE out = {}

C7_Witness ==
    /\ linkPc = "done"
    /\ annots # <<>>
    /\ \E pw \in WordSlots :
          /\ Matching(pw) = {}
          /\ InWord(pw).text = TUrl
          /\ Get(OutWord(pw).properties, "link") = UrlExample

\* C9: without dumppdf on the system main does not fail: it returns the
\* Document, no annotation is applied, and the links are the textual ones.
C9_ToolNotFoundDegrades ==
    dumppdfLocation = "" =>
        /\ mainPromise.state # "rejected"
        /\ ~ENABLED LinkNext => mainPromise.state = "fulfilled"
        /\ linkPc \in {"awaitLinks", "done"} => annots = <<>>
        /\ linkPc = "done" =>
              \A pw \in WordSlots :
                  OutWord(pw) = IF NoLink(InWord(pw).properties)
                                THEN matchTextualLinks(InWord(pw)) ELSE InWord(pw)

C9_Witness ==
    /\ dumppdfLocation = ""
    /\ mainPromise.state = "fulfilled"
    /\ \E pw \in WordSlots :
          /\ InWord(pw).text = TMail
          /\ "link" \in Keys(OutWord(pw).properties)

\* The metadata getFileMetadata delivered cannot be parsed to the end: it
\* has no pdf object, or the parsing of one of its pages with annotations
\* throws.
MetadataParseFails ==
    /\ metaPromise.state = "fulfilled"
    /\ \/ ~metaPromise.value.hasPdf
       \/ \E i \in DOMAIN metaPromise.value.pages :
             /\ metaPromise.value.pages[i].hasAnnots
             /\ PageThrows(metaPromise.value.pages[i])

\* C15: when the parsing of the metadata fails, extractLinksFromMetadata
\* yields no annotation at all, and every Word leaves main with its own
\* link or the textual one, never with a link taken from an annotation.
C15_ParseFailureYieldsNoAnnotations ==
    MetadataParseFails =>
        /\ linkPc \in {"awaitLinks", "done"} => annots = <<>>
        /\ linkPc = "done" =>
              \A pw \in WordSlots :
                  OutWord(pw) = IF NoLink(InWord(pw).properties)
                                THEN matchTextualLinks(InWord(pw)) ELSE InWord(pw)

\* A step of the metadata promise: once settled it stays as it is; stderr
\* data while it is pending rejects it, and so does a close with a code
\* other than 0 (the close that starts no parse).
MetaPromiseStep ==
    /\ metaPromise.state # "pending" => metaPromise' = metaPromise
    /\ (DumppdfStderr /\ metaPromise.state = "pending") => metaPromise' = Rejected("stderr")
    /\ (dumppdf = "running" /\ dumppdf' = "closed" /\ metaPc' = "none"
          /\ metaPromise.state = "pending") => metaPromise' = Rejected("code")

\* What link detection does with the promise: after stderr data came first
\* there are no annotations, whatever dumppdf wrote; annotations are there
\* only after a close with code 0 whose XML was parsed, with the promise
\* fulfilled with it.
MetaPromiseUse ==
    /\ (linkPc \in {"awaitLinks", "done"} /\ metaPromise = Rejected("stderr"))
          => annots = <<>>
    /\ annots # <<>> =>
          /\ metaPc = "parsed"
          /\ metaPromise = Fulfilled(metaXml)
          /\ annots = extractLinksFromMetadata(Fulfilled(metaXml))

\* C16: the promise of getFileMetadata is settled by the first event of
\* dumppdf and never changes afterwards: stderr data before the close
\* rejects it and link detection goes on without annotations, also when
\* dumppdf then closes with code 0 and well-formed XML; the annotations of
\* the XML are used only when no stderr data came before a close with code 0.
C16_FirstEventSettles == [][MetaPromiseStep]_vars /\ []MetaPromiseUse

\* stderr data came first, then dumppdf closed with code 0 and XML with
\* annotations that was parsed: main is done without any annotation.
C16_Witness ==
    /\ metaPromise = Rejected("stderr")
    /\ metaPc = "parsed"
    /\ extractLinksFromMetadata(Fulfilled(metaXml)) # <<>>
    /\ linkPc = "done"
    /\ annots = <<>>

(***************************************************************************)
(* Font bucketing on its own (SpecFont).                                   *)
(***************************************************************************)
MaxFonts == 4

\* The fonts of a line's characters: they differ in name and weight, in
\* size, or in colour.
FontPool ==
    {Font("Arial", 10, "[0]"), Font("Arial-Bold", 10, "[0]"),
     Font("Arial", 12, "[0]"), Font("Times-Italic", 10, "[1, 0, 0]")}

FontInit ==
    /\ fontInput \in SeqsUpTo(FontPool, MaxFonts)
    /\ commonFont = undefinedFont
    /\ fontPc = "ready"
    /\ line = <<>>
    /\ wordSeparator = getPageSeparator
    /\ words = <<>>
    /\ linePc = "idle"
    /\ pdf2txtLocation = ""
    /\ xml = [parse |-> "ok", hasPages |-> FALSE, page |-> <<>>]
    /\ execPc = "idle"
    /\ exitCode = <<>>
    /\ docPromise = Pending
    /\ pagePromise = <<>>
    /\ pageElements = <<>>
    /\ ocrRuns = <<>>
    /\ settleOrder = <<>>
    /\ LinkIdle
    /\ TocIdle

MostCommonFont ==
    /\ fontPc = "ready"
    /\ commonFont' = getMostCommonFont(fontInput)
    /\ fontPc' = "done"
    /\ UNCHANGED fontInput
    /\ UNCHANGED <<lineVars, execVars, linkVars, tocVars>>

FontNext == MostCommonFont

SpecFont == FontInit /\ [][FontNext]_vars

Occurrences(f) == Cardinality({ i \in DOMAIN fontInput : fontInput[i] = f })

FirstOccurrence(f) == Min({ i \in DOMAIN fontInput : fontInput[i] = f })

\* C11: getMostCommonFont returns the undefined-font sentinel for the empty
\* sequence; otherwise it returns a font of the sequence that no other font
\* outnumbers, and among the fonts with as many occurrences the one whose
\* first occurrence is the earliest.
C11_MostCommonFont ==
    fontPc = "done" =>
        IF fontInput = <<>> THEN commonFont = undefinedFont
        ELSE /\ commonFont \in Range(fontInput)
             /\ \A g \in Range(fontInput) :
                    /\ Occurrences(g) <= Occurrences(commonFont)
                    /\ Occurrences(g) = Occurrences(commonFont)
                          => FirstOccurrence(commonFont) <= FirstOccurrence(g)

\* A tie between two fonts, won by the one that came first although the
\* other one is the last of the sequence.
C11_Witness ==
    /\ fontPc = "done"
    /\ Len(fontInput) = 4
    /\ \E g \in Range(fontInput) :
          /\ g # commonFont
          /\ Occurrences(g) = 2
          /\ Occurrences(commonFont) = 2
          /\ fontInput[1] = commonFont
          /\ fontInput[4] = g

(***************************************************************************)
(* The TableOfContents element (SpecToc).                                  *)
(***************************************************************************)
MaxContent == 2

\* Elements a table of contents can hold, with what toMarkdown makes of them.
WordEl(text) == [type |-> "Word", text |-> text]

ImageEl(src) == [type |-> "Image", text |-> src]

Elements == {WordEl("Intro"), WordEl("Index"), ImageEl("logo.png")}

toMarkdown(element) ==
    IF element.type = "Image" THEN <<"![](", element.text, ")">> ELSE <<element.text>>

TableOfContentsItem(description, pageNum, level) ==
    [description |-> description, pageNum |-> pageNum, level |-> level]

contentToTOCItem(element) == TableOfContentsItem(toMarkdown(element), "0", 0)

\* this.items = this.content.map(this.contentToTOCItem)
updateItems(theContent) == [i \in DOMAIN theContent |-> contentToTOCItem(theContent[i])]

\* Item lists a caller can assign through the items setter.
ForeignItems == {<<>>, <<TableOfContentsItem(<<"Foreword">>, "3", 1)>>}

TocInit ==
    /\ TocIdle
    /\ FontIdle
    /\ line = <<>>
    /\ wordSeparator = getPageSeparator
    /\ words = <<>>
    /\ linePc = "idle"
    /\ pdf2txtLocation = ""
    /\ xml = [parse |-> "ok", hasPages |-> FALSE, page |-> <<>>]
    /\ execPc = "idle"
    /\ exitCode = <<>>
    /\ docPromise = Pending
    /\ pagePromise = <<>>
    /\ pageElements = <<>>
    /\ ocrRuns = <<>>
    /\ settleOrder = <<>>
    /\ LinkIdle

\* The content setter without its call of updateItems.
SetContent_NoUpdate(value) ==
    /\ tocContent' = value
    /\ lastReplaced' = value
    /\ mutated' = FALSE
    /\ UNCHANGED <<tocItems, itemsAssigned>>
    /\ UNCHANGED <<lineVars, execVars, linkVars, fontVars>>

\* toc.content = value
SetContent(value) ==
    /\ tocContent' = value
    /\ tocItems' = updateItems(value)
    /\ lastReplaced' = value
    /\ mutated' = FALSE
    /\ UNCHANGED itemsAssigned
    /\ UNCHANGED <<lineVars, execVars, linkVars, fontVars>>

\* toc.content.push(element): the getter hands out the array itself.
PushContent(element) ==
    /\ Len(tocContent) < MaxContent
    /\ tocContent' = Append(tocContent, element)
    /\ mutated' = TRUE
    /\ UNCHANGED <<tocItems, lastReplaced, itemsAssigned>>
    /\ UNCHANGED <<lineVars, execVars, linkVars, fontVars>>

\* toc.content.pop()
PopContent ==
    /\ tocContent # <<>>
    /\ tocContent' = SubSeq(tocContent, 1, Len(tocContent) - 1)
    /\ mutated' = TRUE
    /\ UNCHANGED <<tocItems, lastReplaced, itemsAssigned>>
    /\ UNCHANGED <<lineVars, execVars, linkVars, fontVars>>

\* toc.items = theItems, by a caller
SetItems(theItems) ==
    /\ tocItems' = theItems
    /\ itemsAssigned' = TRUE
    /\ UNCHANGED <<tocContent, lastReplaced, mutated>>
    /\ UNCHANGED <<lineVars, execVars, linkVars, fontVars>>

TocNext ==
    \/ \E value \in SeqsUpTo(Elements, MaxContent) : SetContent(value)
    \/ \E element \in Elements : PushContent(element)
    \/ PopContent
    \/ \E theItems \in ForeignItems : SetItems(theItems)

SpecToc == TocInit /\ [][TocNext]_vars

\* items[i] is the item of the Markdown rendering of c[i], for every i.
ItemsOf(c) ==
    /\ Len(tocItems) = Len(c)
    /\ \A i \in DOMAIN c :
          tocItems[i] = [description |-> toMarkdown(c[i]), pageNum |-> "0", level |-> 0]

\* C13: as long as only the content setter and in-place changes of the
\* content act on the element, items are the items of the content as it was
\* when it was last replaced; they are the items of the present content when
\* it was not changed in place since.
C13_ItemsFollowReplacement ==
    ~itemsAssigned =>
        /\ ItemsOf(lastReplaced)
        /\ ~mutated => ItemsOf(tocContent)

\* The content was replaced by two elements and then changed in place: the
\* items are those of the replacement, not of the present content.
C13_Witness ==
    /\ ~itemsAssigned
    /\ mutated
    /\ Len(lastReplaced) = 2
    /\ Len(tocContent) = 1
    /\ Len(tocItems) = 2
    /\ tocItems[2].description = <<"![](", "logo.png", ")">>

=============================================================================
